---- MODULE Spec2Model ----
(***************************************************************************)
(* Model of BMI_CALCULATOR.py: the sqlite table `entries`, the queries on  *)
(* it, the BMI formula and classification, the input validation and the    *)
(* handlers of the BMIGUI window.                                          *)
(*                                                                         *)
(* Representation.                                                         *)
(*  - A text (str) is a tuple of one-character strings.                    *)
(*  - A Python float is a record [cls, num, den]: cls "fin" is the exact   *)
(*    rational num/den in lowest terms (den > 0), and "nan", "inf",        *)
(*    "ninf" are the IEEE specials.  Arithmetic is exact; the inputs the   *)
(*    specifications draw from are decimals on which the binary float      *)
(*    results compare and round the same way (no quotient within one ulp   *)
(*    of a threshold, no decimal tie in round(x, 2)).                      *)
(*  - A value read back from a REAL column is such a float or Null: the    *)
(*    sqlite3 module binds a NaN as NULL.                                  *)
(*  - A timestamp is the number of whole seconds on the wall clock.  The   *)
(*    code stores the fixed-width text "YYYY-MM-DD HH:MM:SS", whose text   *)
(*    order (the order ORDER BY timestamp uses) is the order of seconds.   *)
(*                                                                         *)
(* Environment.                                                            *)
(*  - The wall clock does not run backwards between two saves.             *)
(*  - ORDER BY leaves the order of rows with equal timestamps open, so a   *)
(*    query is the set of its possible results.                            *)
(*  - A message box is modal: no handler runs until it is dismissed.       *)
(*  - Opening the export destination succeeds or fails as a whole; the     *)
(*    database file itself is always readable and writable.                *)
(***************************************************************************)
EXTENDS Integers, Sequences, FiniteSets, TLC

VARIABLES
    running,        \* TRUE between program start and the window closing
    tableFound,     \* init_db found the table there (the store was reopened)
    tableExists,    \* bmi_history.db holds the table `entries`
    entries,        \* rows of the table, in rowid order
    name_var,       \* self.name_var   (text of the Name entry)
    weight_var,     \* self.weight_var (text of the Weight entry)
    height_var,     \* self.height_var (text of the Height entry)
    result_bmi,     \* self.result_bmi, the text after "BMI: "
    result_cat,     \* self.result_cat, the text after "Category: "
    history_rows,   \* self._history_rows, the rows behind the listbox
    curselection,   \* selected listbox line, 0 when none
    plot,           \* what self.ax shows: [name, times, bmis]
    csvFile,        \* the export destination: [exists, header, rows]
    dialog          \* the message box on screen, "" when none (it is modal)

vars == <<running, tableFound, tableExists, entries, name_var, weight_var,
          height_var, result_bmi, result_cat, history_rows, curselection, plot,
          csvFile, dialog>>

guiVars == <<name_var, weight_var, height_var, result_bmi, result_cat,
             history_rows, curselection, plot>>

-----------------------------------------------------------------------------
(* Bounds of the model. *)

MaxEntries == 2
MaxClock == 1

-----------------------------------------------------------------------------
(* Texts. *)

IsSpace(c) == c = " "

RECURSIVE lstrip(_)
lstrip(s) == IF s # <<>> /\ IsSpace(Head(s)) THEN lstrip(Tail(s)) ELSE s

RECURSIVE rstrip(_)
rstrip(s) ==
    IF s # <<>> /\ IsSpace(s[Len(s)]) THEN rstrip(SubSeq(s, 1, Len(s) - 1)) ELSE s

\* str.strip()
strip(s) == rstrip(lstrip(s))

DigitChars == <<"0", "1", "2", "3", "4", "5", "6", "7", "8", "9">>

IsDigit(c) == \E d \in 1..10 : DigitChars[d] = c

DigitVal(c) == (CHOOSE d \in 1..10 : DigitChars[d] = c) - 1

AllDigits(s) == \A i \in 1..Len(s) : IsDigit(s[i])

RECURSIVE DigitsVal(_)
DigitsVal(s) ==
    IF s = <<>> THEN 0
    ELSE DigitsVal(SubSeq(s, 1, Len(s) - 1)) * 10 + DigitVal(s[Len(s)])

RECURSIVE Pow10(_)
Pow10(n) == IF n = 0 THEN 1 ELSE 10 * Pow10(n - 1)

\* str.lower() on the letters that spell nan, inf and infinity
LowerChar(c) ==
    CASE c = "N" -> "n" [] c = "A" -> "a" [] c = "I" -> "i" [] c = "F" -> "f"
      [] c = "T" -> "t" [] c = "Y" -> "y" [] OTHER -> c

Lower(s) == [i \in 1..Len(s) |-> LowerChar(s[i])]

RECURSIVE IntDigits(_)
IntDigits(n) ==
    IF n < 10 THEN <<DigitChars[n + 1]>>
    ELSE IntDigits(n \div 10) \o <<DigitChars[(n % 10) + 1]>>

-----------------------------------------------------------------------------
(* Floats. *)

Abs(n) == IF n < 0 THEN -n ELSE n

RECURSIVE GCD(_, _)
GCD(a, b) == IF b = 0 THEN a ELSE GCD(b, a % b)

\* the float num/den (den # 0), in lowest terms with a positive denominator
Fin(n, d) ==
    LET g == GCD(Abs(n), Abs(d))
        s == IF d < 0 THEN -1 ELSE 1
    IN  [cls |-> "fin", num |-> (s * n) \div g, den |-> (s * d) \div g]

NaN == [cls |-> "nan", num |-> 0, den |-> 1]
PosInf == [cls |-> "inf", num |-> 0, den |-> 1]
NegInf == [cls |-> "ninf", num |-> 0, den |-> 1]
\* what a REAL column gives back for a NaN that was bound to it
Null == [cls |-> "null", num |-> 0, den |-> 1]

Neg(x) ==
    CASE x.cls = "fin" -> Fin(-x.num, x.den)
      [] x.cls = "inf" -> NegInf
      [] x.cls = "ninf" -> PosInf
      [] OTHER -> x

\* x < y on floats: every comparison with a NaN is False
Lt(x, y) ==
    CASE x.cls = "nan" \/ y.cls = "nan" -> FALSE
      [] x.cls = "fin" /\ y.cls = "fin" -> x.num * y.den < y.num * x.den
      [] x.cls = "ninf" -> y.cls # "ninf"
      [] x.cls = "inf" -> FALSE
      [] OTHER -> y.cls = "inf"

Le(x, y) == Lt(x, y) \/ (x.cls # "nan" /\ x = y)
Gt(x, y) == Lt(y, x)

\* x ** 2
Sq(x) ==
    CASE x.cls = "fin" -> Fin(x.num * x.num, x.den * x.den)
      [] x.cls = "nan" -> NaN
      [] OTHER -> PosInf

\* x / y for y # 0.0
Div(x, y) ==
    CASE x.cls = "nan" \/ y.cls = "nan" -> NaN
      [] x.cls = "fin" /\ y.cls = "fin" -> Fin(x.num * y.den, x.den * y.num)
      [] x.cls = "fin" -> Fin(0, 1)
      [] y.cls = "fin" ->
            IF (y.num < 0) = (x.cls = "inf") THEN NegInf ELSE PosInf
      [] OTHER -> NaN

\* round(x, 2): to the nearest hundredth, a tie to the even one
Round2(x) ==
    IF x.cls # "fin" THEN x
    ELSE LET n == x.num * 100
             q == n \div x.den
             r == n % x.den
             h == IF 2 * r < x.den THEN q
                  ELSE IF 2 * r > x.den THEN q + 1
                  ELSE IF q % 2 = 0 THEN q ELSE q + 1
         IN  Fin(h, 100)

-----------------------------------------------------------------------------
(* Conversions between texts and floats. *)

Ok(v) == [ok |-> TRUE, val |-> v]
ValueError == [ok |-> FALSE, val |-> NaN]

\* an unsigned decimal literal: digits, optionally one "." among them, at least
\* one digit in all (exponents and "_" are outside the texts the model draws)
ParseDecimal(s) ==
    LET dots == {i \in 1..Len(s) : s[i] = "."}
    IN  IF dots = {}
        THEN IF s # <<>> /\ AllDigits(s) THEN Ok(Fin(DigitsVal(s), 1)) ELSE ValueError
        ELSE IF Cardinality(dots) > 1 THEN ValueError
        ELSE LET d == CHOOSE i \in dots : TRUE
                 ip == SubSeq(s, 1, d - 1)
                 fp == SubSeq(s, d + 1, Len(s))
             IN  IF AllDigits(ip) /\ AllDigits(fp) /\ Len(ip) + Len(fp) >= 1
                 THEN Ok(Fin(DigitsVal(ip) * Pow10(Len(fp)) + DigitsVal(fp),
                             Pow10(Len(fp))))
                 ELSE ValueError

\* float(text): surrounding whitespace is dropped, a sign is allowed, and
\* "nan", "inf", "infinity" are accepted in any letter case
float(t) ==
    LET s == strip(t)
        signed == s # <<>> /\ s[1] \in {"+", "-"}
        body == IF signed THEN Tail(s) ELSE s
        word == Lower(body)
        mag == IF word = <<"n", "a", "n">> THEN Ok(NaN)
               ELSE IF word \in {<<"i", "n", "f">>,
                                 <<"i", "n", "f", "i", "n", "i", "t", "y">>}
               THEN Ok(PosInf)
               ELSE ParseDecimal(body)
    IN  IF mag.ok /\ signed /\ s[1] = "-" THEN Ok(Neg(mag.val)) ELSE mag

\* digits after the point in repr(x) for a finite x whose expansion ends
FracDigits(x) ==
    LET k == CHOOSE j \in 0..9 : Pow10(j) % x.den = 0
                                 /\ \A i \in 0..(j - 1) : Pow10(i) % x.den # 0
        f == (Abs(x.num) % x.den) * (Pow10(k) \div x.den)
        ds == IntDigits(f)
    IN  IF k = 0 THEN <<"0">>
        ELSE [i \in 1..(k - Len(ds)) |-> "0"] \o ds

\* str(v) of a value read from a REAL column (repr of a float, or "None")
str(x) ==
    CASE x.cls = "null" -> <<"N", "o", "n", "e">>
      [] x.cls = "nan" -> <<"n", "a", "n">>
      [] x.cls = "inf" -> <<"i", "n", "f">>
      [] x.cls = "ninf" -> <<"-", "i", "n", "f">>
      [] OTHER -> (IF x.num < 0 THEN <<"-">> ELSE <<>>)
                  \o IntDigits(Abs(x.num) \div x.den) \o <<".">> \o FracDigits(x)

-----------------------------------------------------------------------------
(* BMI logic. *)

\* calculate_bmi_value: [ok, val], or the ValueError it raises in [err]
calculate_bmi_value(weight, height) ==
    IF Le(height, Fin(0, 1))
    THEN [ok |-> FALSE, val |-> NaN, err |-> "Height must be positive"]
    ELSE [ok |-> TRUE, val |-> Div(weight, Sq(height)), err |-> ""]

\* a faulty bmi_category: the first boundary taken with <= instead of <
bmi_category_closed(bmi) ==
    IF Le(bmi, Fin(37, 2)) THEN "Underweight"
    ELSE IF Lt(bmi, Fin(25, 1)) THEN "Normal weight"
    ELSE IF Lt(bmi, Fin(30, 1)) THEN "Overweight"
    ELSE "Obese"

bmi_category(bmi) ==
    IF Lt(bmi, Fin(37, 2)) THEN "Underweight"
    ELSE IF Le(Fin(37, 2), bmi) /\ Lt(bmi, Fin(25, 1)) THEN "Normal weight"
    ELSE IF Le(Fin(25, 1), bmi) /\ Lt(bmi, Fin(30, 1)) THEN "Overweight"
    ELSE "Obese"

-----------------------------------------------------------------------------
(* Database helpers.  The table is the sequence of its rows in rowid order. *)

Row(id, name, weight, height, bmi, category, timestamp) ==
    [id |-> id, name |-> name, weight |-> weight, height |-> height,
     bmi |-> bmi, category |-> category, timestamp |-> timestamp]

\* a faulty init_db: the table is dropped and created again at every start
init_db_recreate(exists, rows) == <<>>

\* CREATE TABLE IF NOT EXISTS entries: the rows of the table afterwards
init_db(exists, rows) == IF exists THEN rows ELSE <<>>

\* the rowid sqlite gives a row inserted into an INTEGER PRIMARY KEY table
\* without an explicit id: one more than the largest rowid in the table
NextRowid(rows) ==
    IF rows = <<>> THEN 1
    ELSE (CHOOSE m \in {rows[i].id : i \in 1..Len(rows)} :
             \A i \in 1..Len(rows) : rows[i].id <= m) + 1

\* a float bound to a REAL column: the sqlite3 module stores a NaN as NULL
BindReal(x) == IF x.cls = "nan" THEN Null ELSE x

\* a faulty save_entry: INSERT OR REPLACE under the id of the newest row
save_entry_replace(rows, name, weight, height, bmi, category, now) ==
    IF rows = <<>>
    THEN <<Row(1, name, BindReal(weight), BindReal(height), BindReal(bmi),
               category, now)>>
    ELSE [rows EXCEPT ![Len(rows)] =
             Row(rows[Len(rows)].id, name, BindReal(weight), BindReal(height),
                 BindReal(bmi), category, now)]

\* save_entry at wall-clock second `now`: the table afterwards
save_entry(rows, name, weight, height, bmi, category, now) ==
    Append(rows, Row(NextRowid(rows), name, BindReal(weight), BindReal(height),
                     BindReal(bmi), category, now))

\* ORDER BY timestamp (DESC when desc): every arrangement of the rows rs with
\* the timestamps of adjacent rows in order; rows that tie may come in any
\* order, as ORDER BY leaves them
Arrangements(rs, desc) ==
    IF rs = <<>> THEN {<<>>}
    ELSE LET n == Len(rs)
         IN  {[i \in 1..n |-> rs[p[i]]] : p \in
                 {q \in Permutations(1..n) :
                     \A i \in 1..(n - 1) :
                         IF desc
                         THEN rs[q[i]].timestamp >= rs[q[i + 1]].timestamp
                         ELSE rs[q[i]].timestamp <= rs[q[i + 1]].timestamp}}

\* SELECT ... FROM entries ORDER BY timestamp DESC: the possible results
get_all_entries(rows) == Arrangements(rows, TRUE)

\* a faulty get_entries_for_user: the name compared without regard to case
get_entries_for_user_nocase(rows, name) ==
    LET Matches(r) == Lower(r.name) = Lower(name)
    IN  Arrangements(SelectSeq(rows, Matches), FALSE)

\* SELECT ... FROM entries WHERE name=? ORDER BY timestamp: the possible
\* results (a TEXT column compares with BINARY collation: exact, case-sensitive)
get_entries_for_user(rows, name) ==
    LET Matches(r) == r.name = name
    IN  Arrangements(SelectSeq(rows, Matches), FALSE)

-----------------------------------------------------------------------------
(* The window. *)

\* the em dash the result labels start with
Dash == <<"-">>

NoPlot == [name |-> <<>>, times |-> <<>>, bmis |-> <<>>]
NoFile == [exists |-> FALSE, header |-> <<>>, rows |-> <<>>]
CsvHeader == <<"id", "name", "weight", "height", "bmi", "category", "timestamp">>

\* one row as csv.writer writes it: str() of each value, "" for None
CsvCell(x) == IF x.cls = "null" THEN <<>> ELSE str(x)
CsvRow(r) == <<IntDigits(r.id), r.name, CsvCell(r.weight), CsvCell(r.height),
               CsvCell(r.bmi), r.category, r.timestamp>>

\* validate_inputs once the name is stripped and float() has been applied to
\* the two other texts (w, h: [ok, val]): [ok, err, name, weight, height]
Validated(name, w, h) ==
    IF name = <<>>
    THEN [ok |-> FALSE, err |-> "Name cannot be empty", name |-> name,
          weight |-> NaN, height |-> NaN]
    ELSE IF ~w.ok \/ ~h.ok
    THEN [ok |-> FALSE, err |-> "Weight and height must be numbers", name |-> name,
          weight |-> NaN, height |-> NaN]
    ELSE IF Le(w.val, Fin(0, 1)) \/ Gt(w.val, Fin(500, 1))
    THEN [ok |-> FALSE, err |-> "Weight must be between 0 and 500 kg", name |-> name,
          weight |-> NaN, height |-> NaN]
    ELSE IF Le(h.val, Fin(0, 1)) \/ Gt(h.val, Fin(3, 1))
    THEN [ok |-> FALSE, err |-> "Height must be between 0 and 3 meters", name |-> name,
          weight |-> NaN, height |-> NaN]
    ELSE [ok |-> TRUE, err |-> "", name |-> name, weight |-> w.val, height |-> h.val]

\* validate_inputs on the texts of the three entries
validate_inputs(nameText, weightText, heightText) ==
    Validated(strip(nameText), float(weightText), float(heightText))

\* on_calculate after validate_inputs returned v and calculate_bmi_value gave b:
\* what is rounded, classified and saved
Computed(v, b) ==
    IF ~b.ok
    THEN [ok |-> FALSE, err |-> b.err, name |-> <<>>, weight |-> NaN,
          height |-> NaN, bmi |-> NaN, category |-> ""]
    ELSE [ok |-> TRUE, err |-> "", name |-> v.name, weight |-> v.weight,
          height |-> v.height, bmi |-> Round2(b.val),
          category |-> bmi_category(b.val)]

\* on_calculate after validate_inputs: its exception ends the try block
Calculated(v) ==
    IF ~v.ok
    THEN [ok |-> FALSE, err |-> v.err, name |-> <<>>, weight |-> NaN,
          height |-> NaN, bmi |-> NaN, category |-> ""]
    ELSE Computed(v, calculate_bmi_value(v.weight, v.height))

\* the try block of on_calculate: what it saves and shows, or the message of
\* the exception it catches
calculate(nameText, weightText, heightText) ==
    Calculated(validate_inputs(nameText, weightText, heightText))

\* program start: init_db(), then BMIGUI.__init__ up to its load_history()
Main ==
    /\ ~running
    /\ running' = TRUE
    /\ tableFound' = tableExists
    /\ tableExists' = TRUE
    /\ entries' = init_db(tableExists, entries)
    /\ name_var' = <<>>
    /\ weight_var' = <<>>
    /\ height_var' = <<>>
    /\ result_bmi' = Dash
    /\ result_cat' = "-"
    /\ history_rows' \in get_all_entries(entries')
    /\ curselection' = 0
    /\ plot' = NoPlot
    /\ dialog' = ""
    /\ UNCHANGED csvFile

\* the window is closed: mainloop returns and the process ends
Quit ==
    /\ running /\ dialog = ""
    /\ running' = FALSE
    /\ name_var' = <<>>
    /\ weight_var' = <<>>
    /\ height_var' = <<>>
    /\ result_bmi' = Dash
    /\ result_cat' = "-"
    /\ history_rows' = <<>>
    /\ curselection' = 0
    /\ plot' = NoPlot
    /\ dialog' = ""
    /\ tableFound' = FALSE
    /\ UNCHANGED <<tableExists, entries, csvFile>>

\* the user edits the Name, Weight or Height entry
TypeName(t) ==
    /\ running /\ dialog = ""
    /\ name_var' = t
    /\ UNCHANGED <<running, tableFound, tableExists, entries, weight_var,
                   height_var, result_bmi, result_cat, history_rows, curselection,
                   plot, csvFile, dialog>>

TypeWeight(t) ==
    /\ running /\ dialog = ""
    /\ weight_var' = t
    /\ UNCHANGED <<running, tableFound, tableExists, entries, name_var,
                   height_var, result_bmi, result_cat, history_rows, curselection,
                   plot, csvFile, dialog>>

TypeHeight(t) ==
    /\ running /\ dialog = ""
    /\ height_var' = t
    /\ UNCHANGED <<running, tableFound, tableExists, entries, name_var,
                   weight_var, result_bmi, result_cat, history_rows, curselection,
                   plot, csvFile, dialog>>

\* the seconds datetime.now() can show when a row is saved: the wall clock
\* does not run backwards, so none before the newest row's
Now(rows) ==
    {t \in 0..MaxClock : rows = <<>> \/ t >= rows[Len(rows)].timestamp}

\* "Calculate & Save".  The "Saved" box is shown before load_history() runs;
\* it is modal, so the handler is one step
on_calculate ==
    /\ running /\ dialog = ""
    /\ \E c \in {calculate(name_var, weight_var, height_var)} :
           IF c.ok
           THEN /\ Len(entries) < MaxEntries
                /\ \E now \in Now(entries) :
                      entries' = save_entry(entries, c.name, c.weight, c.height,
                                            c.bmi, c.category, now)
                /\ result_bmi' = str(c.bmi)
                /\ result_cat' = c.category
                /\ dialog' = "Saved"
                \* load_history()
                /\ history_rows' \in get_all_entries(entries')
                /\ curselection' = 0
           ELSE /\ dialog' = c.err
                /\ UNCHANGED <<entries, result_bmi, result_cat, history_rows,
                               curselection>>
    /\ UNCHANGED <<running, tableFound, tableExists, name_var, weight_var,
                   height_var, plot, csvFile>>

\* "Clear Fields"
clear_fields ==
    /\ running /\ dialog = ""
    /\ name_var' = <<>>
    /\ weight_var' = <<>>
    /\ height_var' = <<>>
    /\ result_bmi' = Dash
    /\ result_cat' = "-"
    /\ dialog' = ""
    /\ UNCHANGED <<running, tableFound, tableExists, entries, history_rows,
                   curselection, plot, csvFile>>

\* "Refresh History"
load_history ==
    /\ running /\ dialog = ""
    /\ history_rows' \in get_all_entries(entries)
    /\ curselection' = 0
    /\ dialog' = ""
    /\ UNCHANGED <<running, tableFound, tableExists, entries, name_var,
                   weight_var, height_var, result_bmi, result_cat, plot, csvFile>>

\* <<ListboxSelect>> with line sel selected in the listbox, 0 for none
on_history_select(sel) ==
    /\ running /\ dialog = ""
    /\ sel \in 0..Len(history_rows)
    /\ curselection' = sel
    /\ dialog' = ""
    /\ IF sel = 0
       THEN UNCHANGED <<name_var, weight_var, height_var, result_bmi, result_cat>>
       ELSE LET row == history_rows[sel]
            IN  /\ name_var' = row.name
                /\ weight_var' = str(row.weight)
                /\ height_var' = str(row.height)
                /\ result_bmi' = str(row.bmi)
                /\ result_cat' = row.category
    /\ UNCHANGED <<running, tableFound, tableExists, entries, history_rows,
                   plot, csvFile>>

\* a faulty export_csv: no early return on an empty history
exported_unguarded(rows, file, path, io) ==
    IF ~path \/ io # "ok" THEN file
    ELSE [exists |-> TRUE, header |-> CsvHeader,
          rows |-> [i \in 1..Len(rows) |-> CsvRow(rows[i])]]

\* what export_csv leaves in the destination: nothing is written for an empty
\* history or a cancelled file dialog, and open() raising leaves the file as it
\* was (a write that fails half way is not modelled)
exported(rows, file, path, io) ==
    IF rows = <<>> \/ ~path \/ io # "ok" THEN file
    ELSE [exists |-> TRUE, header |-> CsvHeader,
          rows |-> [i \in 1..Len(rows) |-> CsvRow(rows[i])]]

\* the message box export_csv ends with
export_message(rows, path, io) ==
    IF rows = <<>> THEN "No history to export"
    ELSE IF ~path THEN ""
    ELSE IF io = "ok" THEN "Exported" ELSE "Export failed"

\* "Export CSV": path is FALSE when the file dialog is cancelled, io is whether
\* open(path, 'w') succeeds
export_csv(path, io) ==
    /\ running /\ dialog = ""
    /\ \E rows \in get_all_entries(entries) :
          /\ csvFile' = exported(rows, csvFile, path, io)
          /\ dialog' = export_message(rows, path, io)
    /\ UNCHANGED <<running, tableFound, tableExists, entries, guiVars>>

\* "Plot Selected User"
plot_selected_user ==
    /\ running /\ dialog = ""
    /\ IF curselection = 0
       THEN /\ dialog' = "Choose user"
            /\ UNCHANGED plot
       ELSE LET name == history_rows[curselection].name
            IN  \E es \in get_entries_for_user(entries, name) :
                   IF es = <<>>
                   THEN /\ dialog' = "No entries found"
                        /\ UNCHANGED plot
                   ELSE /\ plot' = [name |-> name,
                                    times |-> [i \in 1..Len(es) |-> es[i].timestamp],
                                    bmis |-> [i \in 1..Len(es) |-> es[i].bmi]]
                        /\ dialog' = ""
    /\ UNCHANGED <<running, tableFound, tableExists, entries, name_var,
                   weight_var, height_var, result_bmi, result_cat, history_rows,
                   curselection, csvFile>>

\* the user closes the message box; until then it holds every other handler
Dismiss ==
    /\ running /\ dialog # ""
    /\ dialog' = ""
    /\ UNCHANGED <<running, tableFound, tableExists, entries, guiVars, csvFile>>

-----------------------------------------------------------------------------
(* The program with its user. *)

Init ==
    /\ running = FALSE
    /\ tableFound = FALSE
    /\ tableExists = FALSE
    /\ entries = <<>>
    /\ name_var = <<>>
    /\ weight_var = <<>>
    /\ height_var = <<>>
    /\ result_bmi = Dash
    /\ result_cat = "-"
    /\ history_rows = <<>>
    /\ curselection = 0
    /\ plot = NoPlot
    /\ csvFile = NoFile
    /\ dialog = ""

\* the texts the user types
NameTexts == {<<"A">>}
WeightTexts == {<<"7", "4", ".", "0">>}
HeightTexts == {<<"2", ".", "0">>}

Next ==
    \/ Main
    \/ Quit
    \/ \E t \in NameTexts : TypeName(t)
    \/ \E t \in WeightTexts : TypeWeight(t)
    \/ \E t \in HeightTexts : TypeHeight(t)
    \/ on_calculate
    \/ clear_fields
    \/ load_history
    \/ \E sel \in 0..MaxEntries : on_history_select(sel)
    \/ \E path \in BOOLEAN, io \in {"ok", "fails"} : export_csv(path, io)
    \/ plot_selected_user
    \/ Dismiss

Spec == Init /\ [][Next]_vars

-----------------------------------------------------------------------------
(* The running window with several subjects: the queries and the plot. *)

QueryNameTexts == {<<"A">>, <<"a">>}
QueryWeightTexts == {<<"7", "4", ".", "0">>, <<"1", "0", "0", ".", "0">>}
QueryHeightTexts == {<<"2", ".", "0">>}

\* the window just opened on an empty history, the three entries filled in
QueryInit ==
    /\ running = TRUE
    /\ tableFound = FALSE
    /\ tableExists = TRUE
    /\ entries = <<>>
    /\ name_var \in QueryNameTexts
    /\ weight_var \in QueryWeightTexts
    /\ height_var \in QueryHeightTexts
    /\ result_bmi = Dash
    /\ result_cat = "-"
    /\ history_rows = <<>>
    /\ curselection = 0
    /\ plot = NoPlot
    /\ csvFile = NoFile
    /\ dialog = ""

QueryNext ==
    \/ \E t \in QueryNameTexts : TypeName(t)
    \/ \E t \in QueryWeightTexts : TypeWeight(t)
    \/ on_calculate
    \/ load_history
    \/ \E sel \in 0..MaxEntries : on_history_select(sel)
    \/ plot_selected_user
    \/ Dismiss

QuerySpec == QueryInit /\ [][QueryNext]_vars

-----------------------------------------------------------------------------
(* One press of "Calculate & Save" on each combination of entry texts. *)

SubmitNameTexts ==
    {<<>>, <<" ">>, <<" ", " ">>, <<"B", "o", "b">>, <<" ", "B", "o", "b", " ">>,
     <<"b", "o", "b">>}

SubmitWeightTexts ==
    {<<>>, <<"a", "b", "c">>, <<"n", "a", "n">>, <<"i", "n", "f">>,
     <<"-", "i", "n", "f">>, <<"0">>, <<"-", "1">>, <<"0", ".", "0", "1">>,
     <<"5", "0", "0">>, <<"5", "0", "0", ".", "0", "1">>,
     <<"1", "8", ".", "4", "9", "6">>, <<"1", "8", ".", "5">>,
     <<"2", "4", ".", "9", "9", "9">>, <<"2", "5">>, <<"2", "9", ".", "9", "9", "6">>,
     <<"3", "0">>, <<"7", "0">>, <<"9", "0">>, <<"7", "3", ".", "9", "9">>}

SubmitHeightTexts ==
    {<<"a", "b", "c">>, <<"n", "a", "n">>, <<"i", "n", "f">>, <<"0">>, <<"-", "1">>,
     <<"1">>, <<"1", ".", "7", "5">>, <<"2">>, <<"3">>, <<"3", ".", "0", "1">>}

SubmitInit ==
    /\ running = TRUE
    /\ tableFound = FALSE
    /\ tableExists = TRUE
    /\ entries = <<>>
    /\ name_var \in SubmitNameTexts
    /\ weight_var \in SubmitWeightTexts
    /\ height_var \in SubmitHeightTexts
    /\ result_bmi = Dash
    /\ result_cat = "-"
    /\ history_rows = <<>>
    /\ curselection = 0
    /\ plot = NoPlot
    /\ csvFile = NoFile
    /\ dialog = ""

SubmitNext ==
    \/ on_calculate
    \/ Dismiss

SubmitSpec == SubmitInit /\ [][SubmitNext]_vars

-----------------------------------------------------------------------------
(* Properties of "Calculate & Save", checked under SubmitSpec, where the     *)
(* texts of the three entries stay as they are from the first state on.      *)

Categories == {"Underweight", "Normal weight", "Overweight", "Obese"}

\* the interval of BMI values each category stands for
InInterval(c, b) ==
    CASE c = "Underweight" -> Lt(b, Fin(37, 2))
      [] c = "Normal weight" -> Le(Fin(37, 2), b) /\ Lt(b, Fin(25, 1))
      [] c = "Overweight" -> Le(Fin(25, 1), b) /\ Lt(b, Fin(30, 1))
      [] OTHER -> Le(Fin(30, 1), b)

ParsesFinite(t) == float(t).ok /\ float(t).val.cls = "fin"

InWeightRange(w) == w.ok /\ Lt(Fin(0, 1), w.val) /\ Le(w.val, Fin(500, 1))
InHeightRange(h) == h.ok /\ Lt(Fin(0, 1), h.val) /\ Le(h.val, Fin(3, 1))

\* C1: every persisted record whose stored bmi is a number carries the
\* category of that stored, rounded bmi.
C1_CategoryOfStoredBmi ==
    \A i \in 1..Len(entries) :
        entries[i].bmi.cls = "fin" => InInterval(entries[i].category, entries[i].bmi)

\* C2: with a name given, a weight or height text that does not parse as a
\* finite real is never accepted and is answered by "Weight and height must be
\* numbers", not by a range message.
C2_NotANumber ==
    (strip(name_var) # <<>> /\ (~ParsesFinite(weight_var) \/ ~ParsesFinite(height_var)))
        => (entries = <<>> /\ dialog \in {"", "Weight and height must be numbers"})

C9_Outcome(n, w, h) ==
    /\ n = <<>> => (entries = <<>> /\ dialog \in {"", "Name cannot be empty"})
    /\ (n # <<>> /\ w.ok /\ h.ok /\ ~InWeightRange(w))
          => (entries = <<>> /\ dialog \in {"", "Weight must be between 0 and 500 kg"})
    /\ (n # <<>> /\ w.ok /\ h.ok /\ InWeightRange(w) /\ ~InHeightRange(h))
          => (entries = <<>> /\ dialog \in {"", "Height must be between 0 and 3 meters"})
    /\ \A i \in 1..Len(entries) : entries[i].name = n

\* C9: a record is persisted only when validation succeeds: an empty trimmed
\* name, a weight outside 0 < w <= 500 and a height outside 0 < h <= 3 are each
\* answered by their own message and leave the store as it was, and a persisted
\* record carries the trimmed name.
C9_SubmitValidates ==
    C9_Outcome(strip(name_var), float(weight_var), float(height_var))

\* C10: the category saved for a weight and a height is the one category whose
\* half-open interval holds weight / height^2: below 18.5 Underweight, from
\* 18.5 to below 25 Normal weight, from 25 to below 30 Overweight, from 30 Obese.
C10_ClassifyPartition ==
    \A i \in 1..Len(entries) :
        (entries[i].weight.cls = "fin" /\ entries[i].height.cls = "fin") =>
            \A c \in Categories :
                (entries[i].category = c)
                    <=> InInterval(c, Div(entries[i].weight, Sq(entries[i].height)))

\* a BMI of exactly 18.5 has been classified and saved
C10_Witness ==
    \E i \in 1..Len(entries) :
        /\ entries[i].weight = Fin(37, 2)
        /\ entries[i].height = Fin(1, 1)
        /\ entries[i].category = "Normal weight"

-----------------------------------------------------------------------------
(* Properties of the queries, checked under QuerySpec. *)

IsPrefix(a, b) == Len(a) <= Len(b) /\ a = SubSeq(b, 1, Len(a))

RowSet(rs) == {rs[i] : i \in 1..Len(rs)}

\* the bmi values of one subject in the order the rows were inserted
InsertionSeries(rows, name) ==
    LET Matches(r) == r.name = name
        own == SelectSeq(rows, Matches)
    IN  [i \in 1..Len(own) |-> own[i].bmi]

\* C3: the history listing holds every persisted record, newest timestamp
\* first, and of two records with the same timestamp the larger id first.
C3_ListAllOrder ==
    running =>
        /\ Len(history_rows) = Len(entries)
        /\ RowSet(history_rows) = RowSet(entries)
        /\ \A i, j \in 1..Len(history_rows) :
              i < j =>
                \/ history_rows[i].timestamp > history_rows[j].timestamp
                \/ /\ history_rows[i].timestamp = history_rows[j].timestamp
                   /\ history_rows[i].id > history_rows[j].id

C6_Names == {<<"A">>, <<"a">>, <<"B">>, <<"A", " ">>}

\* C6: for every name, each result of the per-subject query holds exactly the
\* records whose name equals it character for character, each once, in
\* non-decreasing timestamp order; it is empty when no record matches.
C6_ListBySubject ==
    \A name \in C6_Names :
        \A r \in get_entries_for_user(entries, name) :
            /\ RowSet(r) = {e \in RowSet(entries) : e.name = name}
            /\ Len(r) = Cardinality(RowSet(r))
            /\ \A i, j \in 1..Len(r) : i < j => r[i].timestamp <= r[j].timestamp

\* records of "A" and of "a" saved at different seconds, and the series of "a"
\* queried and plotted
C6_Witness ==
    /\ plot.name = <<"a">>
    /\ \E i, j \in 1..Len(entries) :
          /\ entries[i].name = <<"A">>
          /\ entries[j].name = <<"a">>
          /\ entries[i].timestamp # entries[j].timestamp

-----------------------------------------------------------------------------
(* Properties of the store over the life of the program, checked under Spec. *)

StrictlyIncreasingIds(rows) ==
    \A i, j \in 1..Len(rows) : i < j => rows[i].id < rows[j].id

\* C4 as claimed: exporting an empty store to a writable destination leaves a
\* file holding exactly the header row.
C4_EmptyExportWritesHeader ==
    [][(entries = <<>> /\ export_csv(TRUE, "ok"))
          => csvFile' = [exists |-> TRUE, header |-> CsvHeader, rows |-> <<>>]]_vars

\* C4 as amended: while the store is empty nothing writes the destination and
\* no export is reported: "Export CSV" answers "No history to export".
C4_EmptyExportWritesNothing ==
    [][entries = <<>> =>
          /\ csvFile' = csvFile
          /\ dialog' \notin {"Exported", "Export failed"}
          /\ export_csv(TRUE, "ok") => dialog' = "No history to export"]_vars

\* "Export CSV" has just been pressed on an empty store
C4_Witness == dialog = "No history to export" /\ entries = <<>> /\ ~csvFile.exists

\* C7: a step either leaves the table as it is or is a successful "Calculate &
\* Save", which keeps every row as it was and adds exactly one at the end.
C7_AppendOnly ==
    [][\/ entries' = entries
       \/ /\ dialog = "" /\ dialog' = "Saved"
          /\ Len(entries') = Len(entries) + 1
          /\ SubSeq(entries', 1, Len(entries)) = entries]_vars

\* two records are in the store after an export, a restart, a selection and a plot
C7_Witness ==
    /\ Len(entries) >= 2
    /\ csvFile.exists
    /\ tableFound
    /\ curselection # 0
    /\ plot # NoPlot

\* C8: ids grow with the order of insertion, and starting the program again
\* (init_db on the existing file) keeps every row.
C8_IdsIncrease ==
    [][/\ StrictlyIncreasingIds(entries')
       /\ (~running /\ running') => entries' = entries]_vars

\* a record has just been saved into a reopened store that holds another one
C8_Witness ==
    /\ running /\ tableFound
    /\ dialog = "Saved"
    /\ Len(entries) >= 2

====
